---- MODULE Spec2Model ----
(***************************************************************************)
(* Model of the rs-ai client library: the request builder                  *)
(* (ChatCompletionParameter), the wire envelope (json_types.rs) and the    *)
(* transport client (Client::get_models, Client::chat_completion).         *)
(*                                                                         *)
(* Rust values are written as follows.                                     *)
(*   Option<T>     None == << >>, Some(x) == << x >>                       *)
(*   Result<T>     Ok(v) == [ok |-> TRUE, val |-> v],                      *)
(*                 Err(e) == [ok |-> FALSE, err |-> e]                     *)
(*   Vec<T>,&[T]   sequences                                               *)
(*   struct        record with the struct's field names                    *)
(*   JSON          tagged trees, see JStr .. JObj                          *)
(* "Issuing a request" is the call of send() on the HTTP client.           *)
(***************************************************************************)
EXTENDS Integers, Sequences, FiniteSets, TLC

VARIABLES
    param,      \* the ChatCompletionParameter (lib.rs:174-180)
    given,      \* history: the messages handed to new and to add_message, in call order
    last_call,  \* history: the builder's most recent call, its argument and what it returned
    client,     \* the Client (lib.rs:21-26): api_key, api_url, models
    pc,         \* position of the client's current call (its await points)
    request,    \* the request of the current/last call, as handed to send()
    response,   \* the response of the current/last call: status, body
    outcome,    \* what the last finished client call returned
    requests,   \* history: every request issued, in order, with the call that issued it
    calls,      \* history: the client's calls, in order, and how often each returned
    input,      \* the conversion applied last and its argument
    output,     \* what that conversion gave
    sent,       \* history: the parameter handed to each chat_completion call, in call order
    cmd,        \* position of command_weather (main.rs:195-241)
    got_models  \* history: the get_models calls that returned, in order, and whether with Ok

vars ==
    <<param, given, last_call, client, pc, request, response, outcome, requests, calls,
      input, output, sent, cmd, got_models>>
builderVars == <<param, given, last_call>>
clientVars == <<client, pc, request, response, outcome, requests, calls, got_models>>
codecVars == <<input, output>>
otherVars == <<codecVars, sent, cmd>>

-----------------------------------------------------------------------------
(* Bounds of the model.                                                    *)

MaxMessages == 2
MaxTools == 2
MaxCalls == 3
MaxFields == 2
MaxChoices == 2

-----------------------------------------------------------------------------
(* Rust's Option and Result.                                               *)

None == << >>
Some(x) == << x >>
IsNone(o) == o = << >>
IsSome(o) == o # << >>
Unwrap(o) == o[1]

Ok(v) == [ok |-> TRUE, val |-> v]
Err(e) == [ok |-> FALSE, err |-> e]

Unit == "()"

RECURSIVE any(_, _)
\* Iterator::any over a slice of tools, with the closure of lib.rs:233.
any(tools, name) ==
    IF tools = << >> THEN FALSE
    ELSE IF Head(tools).function.name = name THEN TRUE
    ELSE any(Tail(tools), name)

-----------------------------------------------------------------------------
(* error.rs / the errors lib.rs constructs.                                *)

HTTPError == [kind |-> "HTTPError"]
HTTPErrorWithStatusCode(status) == [kind |-> "HTTPErrorWithStatusCode", status |-> status]
Deserialization(msg) == [kind |-> "Deserialization", msg |-> msg]
BadRequest(body) == [kind |-> "BadRequest", body |-> body]
ToolNotFound(name) == [kind |-> "ToolNotFound", name |-> name]

-----------------------------------------------------------------------------
(* json_types.rs: the values of the data model.                            *)

\* struct Message (json_types.rs:86-98)
Message(role, content, tool_call_id, tool_calls) ==
    [role |-> role, content |-> content, tool_call_id |-> tool_call_id,
     tool_calls |-> tool_calls]

\* struct JsonToolCall / JsonFunctionCall (json_types.rs:101-116)
JsonToolCall(index, id, type, name, arguments) ==
    [index |-> index, id |-> id, type |-> type,
     function_call |-> [name |-> name, arguments |-> arguments]]

\* enum ToolChoice (json_types.rs:155-181)
Auto == [variant |-> "Auto"]
Required == [variant |-> "Required"]
Function(name) ==
    [variant |-> "Function",
     f |-> [type |-> "function", function |-> [name |-> name]]]

\* struct ResponseFormat, as the callers build it (examples/structured_output.rs:86-95)
JsonSchemaDescription(name, strict, schema) ==
    [name |-> name, strict |-> strict, schema |-> schema]
ResponseFormat(schema_type, json_schema) ==
    [schema_type |-> schema_type, json_schema |-> json_schema]

-----------------------------------------------------------------------------
(* tools.rs                                                                *)

\* A parameter type P: JsonSchema is written as the list of its fields.
Field(name, type, optional, doc) ==
    [name |-> name, type |-> type, optional |-> optional, doc |-> doc]

\* The names of the fields of P that are not Option<_>.
NonOptional(P) == {P.fields[i].name : i \in {j \in 1..Len(P.fields) : ~P.fields[j].optional}}

\* Faulty variant: every field is listed as required.
schema_for_all_required(P) ==
    [type |-> "object",
     properties |-> [i \in 1..Len(P.fields) |->
                        [name |-> P.fields[i].name,
                         type |-> IF P.fields[i].optional
                                  THEN {P.fields[i].type, "null"} ELSE {P.fields[i].type},
                         nullable |-> FALSE,
                         description |-> IF P.fields[i].doc = "" THEN None
                                         ELSE Some(P.fields[i].doc)]],
     required |-> {P.fields[i].name : i \in 1..Len(P.fields)},
     additionalProperties |-> IF P.deny_unknown_fields THEN Some(FALSE) ELSE None]

\* schema_for!(P), the root schema #[derive(JsonSchema)] gives for a struct P: a
\* property per field, in declaration order, with the field's type (and null for an
\* Option) and its doc comment as description if it has one; the fields that are
\* not Option as required; additionalProperties false if P is declared with
\* #[schemars(deny_unknown_fields)], no such key otherwise.
schema_for(P) ==
    [type |-> "object",
     properties |-> [i \in 1..Len(P.fields) |->
                        [name |-> P.fields[i].name,
                         type |-> IF P.fields[i].optional
                                  THEN {P.fields[i].type, "null"} ELSE {P.fields[i].type},
                         nullable |-> FALSE,
                         description |-> IF P.fields[i].doc = "" THEN None
                                         ELSE Some(P.fields[i].doc)]],
     required |-> NonOptional(P),
     additionalProperties |-> IF P.deny_unknown_fields THEN Some(FALSE) ELSE None]

\* The transform AddNullable (tools.rs:54): a type that admits null is written as
\* the type with nullable set.
AddNullable(schema) ==
    [schema EXCEPT !.properties =
        [i \in DOMAIN schema.properties |->
            LET property == schema.properties[i]
            IN IF "null" \in property.type
               THEN [property EXCEPT !.type = @ \ {"null"}, !.nullable = TRUE]
               ELSE property]]

\* create_parameters_schema::<P>() (tools.rs:53-57): the root schema of P under the
\* settings with AddNullable.
create_parameters_schema(P) == AddNullable(schema_for(P))

\* Tool::new (tools.rs:18-24)
ToolNew(name, description, P) == [name |-> name, description |-> description, P |-> P]

\* Faulty variant: name and description change places.
into_json_swapped(tool) ==
    [tool_type |-> "function",
     function |-> [name |-> tool.description,
                   description |-> tool.name,
                   parameters |-> create_parameters_schema(tool.P),
                   strict |-> TRUE]]

\* Tool::into_json (tools.rs:37-49)
into_json(tool) ==
    [tool_type |-> "function",
     function |-> [name |-> tool.name,
                   description |-> tool.description,
                   parameters |-> create_parameters_schema(tool.P),
                   strict |-> TRUE]]

-----------------------------------------------------------------------------
(* lib.rs: ChatCompletionParameter, as operators on the builder's value.   *)

\* ChatCompletionParameter::new (lib.rs:188-196)
New(model, messages) ==
    [model |-> model,
     messages |-> messages,
     response_format |-> None,
     tools |-> << >>,
     tool_choice |-> None]

\* Faulty variant: a format already set is kept (first write wins).
set_response_format_keep(p, response_format) ==
    IF IsSome(p.response_format) THEN p
    ELSE [p EXCEPT !.response_format = Some(response_format)]

\* ChatCompletionParameter::set_response_format (lib.rs:202-204)
set_response_format(p, response_format) ==
    [p EXCEPT !.response_format = Some(response_format)]

\* Faulty variant: the message is put in front.
add_message_front(p, message) ==
    [p EXCEPT !.messages = << message >> \o @]

\* ChatCompletionParameter::add_message (lib.rs:210-212)
add_message(p, message) ==
    [p EXCEPT !.messages = Append(@, message)]

\* Faulty variant: a tool whose name is already in the list is not added again.
add_tool_unique(p, tool) ==
    IF any(p.tools, tool.name) THEN p
    ELSE [p EXCEPT !.tools = Append(@, into_json(tool))]

\* ChatCompletionParameter::add_tool (lib.rs:218-221)
add_tool(p, tool) ==
    [p EXCEPT !.tools = Append(@, into_json(tool))]

\* Faulty variant: the choice is stored without looking at the tools.
set_tool_choice_unchecked(p, tool_choice) ==
    [param |-> [p EXCEPT !.tool_choice = Some(tool_choice)], ret |-> Ok(Unit)]

\* Faulty variant: any tool at all satisfies the check.
set_tool_choice_any_tool(p, tool_choice) ==
    IF tool_choice.variant = "Function" /\ p.tools = << >>
    THEN [param |-> p, ret |-> Err(ToolNotFound(tool_choice.f.function.name))]
    ELSE [param |-> [p EXCEPT !.tool_choice = Some(tool_choice)], ret |-> Ok(Unit)]

\* Faulty variant: a refused choice clears the stored one.
set_tool_choice_clears(p, tool_choice) ==
    IF /\ tool_choice.variant = "Function"
       /\ ~any(p.tools, tool_choice.f.function.name)
    THEN [param |-> [p EXCEPT !.tool_choice = None],
          ret |-> Err(ToolNotFound(tool_choice.f.function.name))]
    ELSE [param |-> [p EXCEPT !.tool_choice = Some(tool_choice)], ret |-> Ok(Unit)]

\* ChatCompletionParameter::set_tool_choice (lib.rs:227-242): the builder afterwards
\* and the value returned.
set_tool_choice(p, tool_choice) ==
    IF /\ tool_choice.variant = "Function"
       /\ ~any(p.tools, tool_choice.f.function.name)
    THEN [param |-> p, ret |-> Err(ToolNotFound(tool_choice.f.function.name))]
    ELSE [param |-> [p EXCEPT !.tool_choice = Some(tool_choice)], ret |-> Ok(Unit)]

-----------------------------------------------------------------------------
(* JSON documents, as serde_json writes and reads them: tagged trees. An   *)
(* object is a function from its keys to documents; a key that is left out *)
(* is not in its domain.                                                   *)

JNull == [t |-> "null"]
JBool(b) == [t |-> "bool", b |-> b]
JNum(n) == [t |-> "number", n |-> n]
JStr(s) == [t |-> "string", s |-> s]
JArr(a) == [t |-> "array", a |-> a]
JObj(o) == [t |-> "object", o |-> o]
\* A schemars schema document, written by schemars' own Serialize.
JSchema(s) == [t |-> "object", schema |-> s]

Keys(j) == DOMAIN j.o
HasKey(j, k) == j.t = "object" /\ k \in DOMAIN j.o

\* #[derive(Serialize)] JsonFunctionCall (json_types.rs:112-116)
SerializeJsonFunctionCall(c) ==
    JObj([name |-> JStr(c.name), arguments |-> JStr(c.arguments)])

\* #[derive(Serialize)] JsonToolCall (json_types.rs:101-109): function_call is
\* renamed to "function".
SerializeJsonToolCall(c) ==
    JObj([index |-> JNum(c.index), id |-> JStr(c.id), type |-> JStr(c.type),
          function |-> SerializeJsonFunctionCall(c.function_call)])

\* Serialize for Vec<JsonToolCall>: the calls' documents, in order.
SerializeToolCalls(seq) == JArr([i \in 1..Len(seq) |-> SerializeJsonToolCall(seq[i])])

\* Faulty variant: an empty content is skipped like the other empty fields.
SerializeMessage_SkipEmptyContent(m) ==
    LET keys == {"role"}
                \cup (IF m.content = "" THEN {} ELSE {"content"})
                \cup (IF m.tool_call_id = "" THEN {} ELSE {"tool_call_id"})
                \cup (IF m.tool_calls = << >> THEN {} ELSE {"tool_calls"})
    IN JObj([k \in keys |->
               CASE k = "role" -> JStr(m.role)
                 [] k = "content" -> JStr(m.content)
                 [] k = "tool_call_id" -> JStr(m.tool_call_id)
                 [] k = "tool_calls" -> SerializeToolCalls(m.tool_calls)])

\* #[derive(Serialize)] Message (json_types.rs:86-98), with its two
\* skip_serializing_if attributes.
SerializeMessage(m) ==
    LET keys == {"role", "content"}
                \cup (IF m.tool_call_id = "" THEN {} ELSE {"tool_call_id"})
                \cup (IF m.tool_calls = << >> THEN {} ELSE {"tool_calls"})
    IN JObj([k \in keys |->
               CASE k = "role" -> JStr(m.role)
                 [] k = "content" -> JStr(m.content)
                 [] k = "tool_call_id" -> JStr(m.tool_call_id)
                 [] k = "tool_calls" -> SerializeToolCalls(m.tool_calls)])

\* Serialize for &[Message]: the messages' documents, in order.
SerializeMessages(seq) == JArr([i \in 1..Len(seq) |-> SerializeMessage(seq[i])])

\* #[derive(Serialize)] JsonFunctionInfo (json_types.rs:139-152)
SerializeJsonFunctionInfo(f) ==
    JObj([name |-> JStr(f.name), description |-> JStr(f.description),
          strict |-> JBool(f.strict), parameters |-> JSchema(f.parameters)])

\* #[derive(Serialize)] JsonTool (json_types.rs:128-136): tool_type is renamed "type".
SerializeJsonTool(tool) ==
    JObj([type |-> JStr(tool.tool_type),
          function |-> SerializeJsonFunctionInfo(tool.function)])

\* Serialize for &[JsonTool]: the tools' documents, in order.
SerializeTools(seq) == JArr([i \in 1..Len(seq) |-> SerializeJsonTool(seq[i])])

\* Faulty variant: the Function variant is written under its variant's name.
SerializeToolChoice_Tagged(tc) ==
    CASE tc.variant = "Auto" -> JStr("auto")
      [] tc.variant = "Required" -> JStr("required")
      [] tc.variant = "Function" ->
            JObj([Function |->
                    JObj([type |-> JStr(tc.f.type),
                          function |-> JObj([name |-> JStr(tc.f.function.name)])])])

\* #[derive(Serialize)] ToolChoice (json_types.rs:155-181): the unit variants are
\* written as their renamed strings, the untagged variant as its content.
SerializeToolChoice(tc) ==
    CASE tc.variant = "Auto" -> JStr("auto")
      [] tc.variant = "Required" -> JStr("required")
      [] tc.variant = "Function" ->
            JObj([type |-> JStr(tc.f.type),
                  function |-> JObj([name |-> JStr(tc.f.function.name)])])

\* #[derive(Serialize)] JsonSchemaDescription (json_types.rs:27-32)
SerializeJsonSchemaDescription(d) ==
    JObj([name |-> JStr(d.name), strict |-> JBool(d.strict), schema |-> JSchema(d.schema)])

\* #[derive(Serialize)] ResponseFormat (json_types.rs:20-25): json_schema has no
\* skip attribute, so None is written as null.
SerializeResponseFormat(rf) ==
    JObj([type |-> JStr(rf.schema_type),
          json_schema |-> IF IsNone(rf.json_schema) THEN JNull
                          ELSE SerializeJsonSchemaDescription(Unwrap(rf.json_schema))])

\* ChatCompletionRequest::new (json_types.rs:43-51)
ChatCompletionRequestNew(model, messages) ==
    [model |-> model,
     messages |-> messages,
     tool_choice |-> None,
     response_format |-> None,
     tools |-> << >>]

\* Faulty variant: tools has no skip attribute, so an empty list is written as [].
SerializeChatCompletionRequest_AlwaysTools(r) ==
    LET keys == {"model", "messages", "tools"}
                \cup (IF IsNone(r.tool_choice) THEN {} ELSE {"tool_choice"})
                \cup (IF IsNone(r.response_format) THEN {} ELSE {"response_format"})
    IN JObj([k \in keys |->
               CASE k = "model" -> JStr(r.model)
                 [] k = "messages" -> SerializeMessages(r.messages)
                 [] k = "tools" -> SerializeTools(r.tools)
                 [] k = "tool_choice" -> SerializeToolChoice(Unwrap(r.tool_choice))
                 [] k = "response_format" ->
                        SerializeResponseFormat(Unwrap(r.response_format))])

\* #[derive(Serialize)] ChatCompletionRequest (json_types.rs:5-18), with its three
\* skip_serializing_if attributes.
SerializeChatCompletionRequest(r) ==
    LET keys == {"model", "messages"}
                \cup (IF r.tools = << >> THEN {} ELSE {"tools"})
                \cup (IF IsNone(r.tool_choice) THEN {} ELSE {"tool_choice"})
                \cup (IF IsNone(r.response_format) THEN {} ELSE {"response_format"})
    IN JObj([k \in keys |->
               CASE k = "model" -> JStr(r.model)
                 [] k = "messages" -> SerializeMessages(r.messages)
                 [] k = "tools" -> SerializeTools(r.tools)
                 [] k = "tool_choice" -> SerializeToolChoice(Unwrap(r.tool_choice))
                 [] k = "response_format" ->
                        SerializeResponseFormat(Unwrap(r.response_format))])

\* Faulty variant: the messages are put into the body last first.
request_body_reversed(p) ==
    [ChatCompletionRequestNew(p.model,
                              [i \in DOMAIN p.messages |->
                                  p.messages[Len(p.messages) + 1 - i]]) EXCEPT
        !.response_format = p.response_format,
        !.tools = p.tools,
        !.tool_choice = p.tool_choice]

\* The request body chat_completion builds from its parameter (lib.rs:105-112).
request_body(p) ==
    [ChatCompletionRequestNew(p.model, p.messages) EXCEPT
        !.response_format = p.response_format,
        !.tools = p.tools,
        !.tool_choice = p.tool_choice]

-----------------------------------------------------------------------------
(* The inputs the callers hand in.                                         *)

ModelIds == {"openai/gpt-4.1"}

\* The parameter types of the repository's callers.
WeatherParameter ==
    [fields |-> << Field("latitude", "number", FALSE, "The latitude of the location."),
                   Field("longitude", "number", FALSE, "The longitude of the location.") >>,
     deny_unknown_fields |-> TRUE]
TimeParameter ==
    [fields |-> << Field("zone", "string", TRUE, "The time zone.") >>,
     deny_unknown_fields |-> TRUE]
Countries ==
    [fields |-> << Field("countries", "array", FALSE, "") >>,
     deny_unknown_fields |-> TRUE]

WeatherCall ==
    JsonToolCall(0, "call_1", "function", "get_weather", "{\"latitude\":48.85,\"longitude\":2.35}")

UserMessage == Message("user", "What is the weather like in Paris today?", "", << >>)
AssistantMessage == Message("assistant", "", "", << WeatherCall >>)
ToolMessage == Message("tool", "The current temperature is 21C", "call_1", << >>)
OddMessage == Message("user", "", "call_1", << WeatherCall >>)
Messages == {UserMessage, AssistantMessage, ToolMessage, OddMessage}

WeatherTool ==
    ToolNew("get_weather", "Get current temperature for a given location.", WeatherParameter)
TimeTool == ToolNew("get_time", "Get the current time.", TimeParameter)
Tools == {WeatherTool, TimeTool}

FunctionNames == {"get_weather", "get_time", "get_news"}
ToolChoices == {Auto, Required} \cup {Function(n) : n \in FunctionNames}

CountriesFormat ==
    ResponseFormat("json_schema",
                   Some(JsonSchemaDescription("Countries", TRUE, schema_for(Countries))))
BareFormat == ResponseFormat("json_schema", None)
ResponseFormats == {CountriesFormat, BareFormat}

\* The initial message vectors handed to new.
InitialMessages == {<< >>} \cup {<< m >> : m \in Messages}

-----------------------------------------------------------------------------
(* Reading JSON: serde_json::from_str into the Deserialize types.          *)

IsObjectWith(j, required) == j.t = "object" /\ required \subseteq DOMAIN j.o
IsString(j) == j.t = "string"
IsNumber(j) == j.t = "number"
IsArray(j) == j.t = "array"
IsArrayOfStrings(j) == IsArray(j) /\ \A i \in DOMAIN j.a : IsString(j.a[i])
IsStringOrNull(j) == j.t \in {"string", "null"}
\* #[serde(default)] on a String: the key may be absent; if present it must be a string.
AbsentOrString(j, k) == k \in DOMAIN j.o => IsString(j.o[k])

\* #[derive(Deserialize)] JsonFunctionCall (json_types.rs:112-116)
ValidJsonFunctionCall(j) ==
    /\ IsObjectWith(j, {"name", "arguments"})
    /\ IsString(j.o["name"]) /\ IsString(j.o["arguments"])
DeserializeJsonFunctionCall(j) ==
    [name |-> j.o["name"].s, arguments |-> j.o["arguments"].s]

\* #[derive(Deserialize)] JsonToolCall (json_types.rs:101-109)
ValidJsonToolCall(j) ==
    /\ IsObjectWith(j, {"index", "id", "type", "function"})
    /\ IsNumber(j.o["index"]) /\ IsString(j.o["id"]) /\ IsString(j.o["type"])
    /\ ValidJsonFunctionCall(j.o["function"])
DeserializeJsonToolCall(j) ==
    [index |-> j.o["index"].n, id |-> j.o["id"].s, type |-> j.o["type"].s,
     function_call |-> DeserializeJsonFunctionCall(j.o["function"])]

ValidToolCalls(j) == IsArray(j) /\ \A i \in DOMAIN j.a : ValidJsonToolCall(j.a[i])

\* #[derive(Deserialize)] Message (json_types.rs:86-98)
ValidMessage(j) ==
    /\ IsObjectWith(j, {"role", "content"})
    /\ IsString(j.o["role"]) /\ IsString(j.o["content"])
    /\ AbsentOrString(j, "tool_call_id")
    /\ "tool_calls" \in DOMAIN j.o => ValidToolCalls(j.o["tool_calls"])
\* Faulty variant: a tool_call_id is kept only on a message of role tool.
DeserializeMessage_IdOnlyForTool(j) ==
    Message(j.o["role"].s,
            j.o["content"].s,
            IF "tool_call_id" \in DOMAIN j.o /\ j.o["role"].s = "tool"
            THEN j.o["tool_call_id"].s ELSE "",
            IF "tool_calls" \in DOMAIN j.o
            THEN [i \in DOMAIN j.o["tool_calls"].a |->
                      DeserializeJsonToolCall(j.o["tool_calls"].a[i])]
            ELSE << >>)

DeserializeMessage(j) ==
    Message(j.o["role"].s,
            j.o["content"].s,
            IF "tool_call_id" \in DOMAIN j.o THEN j.o["tool_call_id"].s ELSE "",
            IF "tool_calls" \in DOMAIN j.o
            THEN [i \in DOMAIN j.o["tool_calls"].a |->
                      DeserializeJsonToolCall(j.o["tool_calls"].a[i])]
            ELSE << >>)

\* #[derive(Deserialize)] Choice (json_types.rs:119-125)
ValidChoice(j) ==
    /\ IsObjectWith(j, {"index", "finish_reason", "native_finish_reason", "message"})
    /\ IsNumber(j.o["index"])
    /\ IsString(j.o["finish_reason"]) /\ IsString(j.o["native_finish_reason"])
    /\ ValidMessage(j.o["message"])
DeserializeChoice(j) ==
    [index |-> j.o["index"].n,
     finish_reason |-> j.o["finish_reason"].s,
     native_finish_reason |-> j.o["native_finish_reason"].s,
     message |-> DeserializeMessage(j.o["message"])]

\* #[derive(Deserialize)] Usage (json_types.rs:78-83)
ValidUsage(j) ==
    /\ IsObjectWith(j, {"prompt_tokens", "completion_tokens", "total_tokens"})
    /\ IsNumber(j.o["prompt_tokens"]) /\ IsNumber(j.o["completion_tokens"])
    /\ IsNumber(j.o["total_tokens"])
DeserializeUsage(j) ==
    [prompt_tokens |-> j.o["prompt_tokens"].n,
     completion_tokens |-> j.o["completion_tokens"].n,
     total_tokens |-> j.o["total_tokens"].n]

\* #[derive(Deserialize)] ChatCompletionResponse (json_types.rs:55-75)
ValidChatCompletionResponse(j) ==
    /\ IsObjectWith(j, {"id", "usage", "created", "choices"})
    /\ IsString(j.o["id"]) /\ IsNumber(j.o["created"])
    /\ ValidUsage(j.o["usage"])
    /\ IsArray(j.o["choices"])
    /\ \A i \in DOMAIN j.o["choices"].a : ValidChoice(j.o["choices"].a[i])
    /\ AbsentOrString(j, "provider")
    /\ AbsentOrString(j, "model")
    /\ AbsentOrString(j, "object")
    /\ "system_fingerprint" \in DOMAIN j.o => IsStringOrNull(j.o["system_fingerprint"])
DeserializeChatCompletionResponse(j) ==
    [id |-> j.o["id"].s,
     provider |-> IF "provider" \in DOMAIN j.o THEN j.o["provider"].s ELSE "",
     model |-> IF "model" \in DOMAIN j.o THEN j.o["model"].s ELSE "",
     object |-> IF "object" \in DOMAIN j.o THEN j.o["object"].s ELSE "",
     system_fingerprint |->
        IF "system_fingerprint" \in DOMAIN j.o /\ IsString(j.o["system_fingerprint"])
        THEN Some(j.o["system_fingerprint"].s) ELSE None,
     usage |-> DeserializeUsage(j.o["usage"]),
     created |-> j.o["created"].n,
     choices |-> [i \in DOMAIN j.o["choices"].a |-> DeserializeChoice(j.o["choices"].a[i])]]

\* #[derive(Deserialize)] LLMModel (models.rs:68-81); the nested architecture,
\* pricing and top_provider are kept as the documents they were read from.
ValidLLMModel(j) ==
    /\ IsObjectWith(j, {"id", "name", "created", "description", "context_length",
                        "architecture", "pricing", "top_provider", "supported_parameters"})
    /\ IsString(j.o["id"]) /\ IsString(j.o["name"]) /\ IsNumber(j.o["created"])
    /\ IsString(j.o["description"]) /\ IsNumber(j.o["context_length"])
    /\ IsObjectWith(j.o["architecture"],
                    {"modality", "input_modalities", "output_modalities", "tokenizer"})
    /\ IsObjectWith(j.o["pricing"], {"prompt", "completion"})
    /\ IsObjectWith(j.o["top_provider"], {"is_moderated"})
    /\ IsArrayOfStrings(j.o["supported_parameters"])
    /\ "hugging_face_id" \in DOMAIN j.o => IsStringOrNull(j.o["hugging_face_id"])
DeserializeLLMModel(j) ==
    [id |-> j.o["id"].s,
     name |-> j.o["name"].s,
     created |-> j.o["created"].n,
     description |-> j.o["description"].s,
     context_length |-> j.o["context_length"].n,
     architecture |-> j.o["architecture"],
     pricing |-> j.o["pricing"],
     top_provider |-> j.o["top_provider"],
     supported_parameters |->
        {j.o["supported_parameters"].a[i].s : i \in DOMAIN j.o["supported_parameters"].a}]

\* #[derive(Deserialize)] JsonModels (models.rs:84-88): models is renamed "data".
ValidJsonModels(j) ==
    /\ IsObjectWith(j, {"data"})
    /\ IsArray(j.o["data"])
    /\ \A i \in DOMAIN j.o["data"].a : ValidLLMModel(j.o["data"].a[i])
DeserializeJsonModels(j) ==
    [models |-> [i \in DOMAIN j.o["data"].a |-> DeserializeLLMModel(j.o["data"].a[i])]]

\* LLMModels::new (models.rs:100-102)
LLMModelsNew(models) == [models |-> models]

-----------------------------------------------------------------------------
(* What the server may answer: status codes and body texts. ParseJson is   *)
(* serde_json's reading of each text the model uses.                       *)

BAD_REQUEST == 400
Statuses == {200, 201, BAD_REQUEST, 401, 500}

\* StatusCode::is_success
is_success(status) == status >= 200 /\ status < 300

TextToolCall == "{\"id\":\"gen-1\",\"created\":1747167300,\"usage\":{..},\"choices\":[{..tool_calls..}]}"
TextAnswer == "{\"id\":\"gen-2\",\"provider\":\"OpenAI\",\"created\":1747167300,\"usage\":{..},\"choices\":[{..}],\"system_fingerprint\":null}"
TextModels == "{\"data\":[{\"id\":\"openai/gpt-4.1\",..}]}"
TextBadSchema == "{\"error\":\"bad schema\"}"
TextHtml == "<html>Bad Gateway</html>"
TextEmpty == ""
TextStrayId == "{\"id\":\"gen-3\",\"created\":1747167300,\"usage\":{..},\"choices\":[{..tool_call_id..}]}"
Texts ==
    {TextToolCall, TextAnswer, TextModels, TextBadSchema, TextHtml, TextEmpty, TextStrayId}

UsageDoc ==
    JObj([prompt_tokens |-> JNum(13), completion_tokens |-> JNum(37),
          total_tokens |-> JNum(50), prompt_tokens_details |-> JNull])
ToolCallDoc ==
    JObj([index |-> JNum(0), id |-> JStr("call_1"), type |-> JStr("function"),
          function |-> JObj([name |-> JStr("get_weather"),
                             arguments |-> JStr("{\"latitude\":48.85,\"longitude\":2.35}")])])
DocToolCall ==
    JObj([id |-> JStr("gen-1"), created |-> JNum(1747167300), usage |-> UsageDoc,
          choices |-> JArr(<<
              JObj([index |-> JNum(0), finish_reason |-> JStr("tool_calls"),
                    native_finish_reason |-> JStr("tool_calls"),
                    message |-> JObj([role |-> JStr("assistant"), content |-> JStr(""),
                                      tool_calls |-> JArr(<< ToolCallDoc >>)])]) >>)])
DocAnswer ==
    JObj([id |-> JStr("gen-2"), provider |-> JStr("OpenAI"), created |-> JNum(1747167300),
          usage |-> UsageDoc, system_fingerprint |-> JNull,
          choices |-> JArr(<<
              JObj([index |-> JNum(0), finish_reason |-> JStr("stop"),
                    native_finish_reason |-> JStr("stop"), logprobs |-> JNull,
                    message |-> JObj([role |-> JStr("assistant"),
                                      content |-> JStr("It is 21C in Paris."),
                                      refusal |-> JNull])]) >>)])
\* An assistant answer that carries a tool_call_id.
DocStrayId ==
    JObj([id |-> JStr("gen-3"), created |-> JNum(1747167300), usage |-> UsageDoc,
          choices |-> JArr(<<
              JObj([index |-> JNum(0), finish_reason |-> JStr("stop"),
                    native_finish_reason |-> JStr("stop"),
                    message |-> JObj([role |-> JStr("assistant"),
                                      content |-> JStr("It is 21C in Paris."),
                                      tool_call_id |-> JStr("call_1")])]) >>)])
DocModels ==
    JObj([data |-> JArr(<<
        JObj([id |-> JStr("openai/gpt-4.1"), name |-> JStr("GPT-4.1"),
              created |-> JNum(1744651385), description |-> JStr("A model."),
              context_length |-> JNum(1047576),
              architecture |-> JObj([modality |-> JStr("text->text"),
                                     input_modalities |-> JArr(<< JStr("text") >>),
                                     output_modalities |-> JArr(<< JStr("text") >>),
                                     tokenizer |-> JStr("GPT")]),
              pricing |-> JObj([prompt |-> JStr("0.000002"), completion |-> JStr("0.000008")]),
              top_provider |-> JObj([is_moderated |-> JBool(TRUE)]),
              supported_parameters |-> JArr(<< JStr("tools"), JStr("structured_outputs") >>)])
        >>)])
DocBadSchema == JObj([error |-> JStr("bad schema")])

\* An object with one key more.
WithKey(o, k, v) == [x \in DOMAIN o \cup {k} |-> IF x = k THEN v ELSE o[x]]

LondonCall ==
    JsonToolCall(1, "call_L8RNjCRpMAxGkCAy5ovJxkw9", "function", "get_weather",
                 "{\"location\":\"London, United Kingdom\"}")

\* The documents of a server's response, written from their shapes.
ToolCallDocOf(call, extra) ==
    LET o == [index |-> JNum(call.index), id |-> JStr(call.id), type |-> JStr(call.type),
              function |-> JObj([name |-> JStr(call.function_call.name),
                                 arguments |-> JStr(call.function_call.arguments)])]
    IN JObj(IF extra THEN WithKey(o, "x_provider", JNull) ELSE o)

MessageDocOf(m, extra) ==
    LET o0 == [role |-> JStr("assistant"), content |-> JStr("")]
        o1 == IF IsSome(m.tool_call_id)
              THEN WithKey(o0, "tool_call_id", JStr(Unwrap(m.tool_call_id))) ELSE o0
        o2 == IF IsSome(m.tool_calls)
              THEN WithKey(o1, "tool_calls",
                           JArr([k \in DOMAIN Unwrap(m.tool_calls) |->
                                    ToolCallDocOf(Unwrap(m.tool_calls)[k], extra)]))
              ELSE o1
    IN JObj(IF extra THEN WithKey(o2, "refusal", JNull) ELSE o2)

ChoiceDocOf(i, m, extra) ==
    LET o == [index |-> JNum(i - 1), finish_reason |-> JStr("tool_calls"),
              native_finish_reason |-> JStr("tool_calls"),
              message |-> MessageDocOf(m, extra)]
    IN JObj(IF extra THEN WithKey(o, "logprobs", JNull) ELSE o)

ResponseDocOf(shape, extra) ==
    LET o == [id |-> JStr("gen-1747167300-fYjOdTy5k0e1c0IqUW6G"),
              created |-> JNum(1747167300), usage |-> UsageDoc,
              choices |-> JArr([i \in DOMAIN shape.choices |->
                                   ChoiceDocOf(i, shape.choices[i], extra)])]
    IN JObj(IF extra THEN WithKey(o, "service_tier", JStr("default")) ELSE o)

\* Bodies the assistant of command_weather may get: two tool calls, the first or
\* the second of them with arguments for get_weather, and no choice at all.
TextTwoCalls == "{\"id\":\"gen-4\",\"created\":1747167300,\"usage\":{..},\"choices\":[{..tool_calls:[call_1,call_L8..]..}]}"
TextLondonFirst == "{\"id\":\"gen-5\",\"created\":1747167300,\"usage\":{..},\"choices\":[{..tool_calls:[call_L8..,call_1]..}]}"
TextNoChoices == "{\"id\":\"gen-6\",\"created\":1747167300,\"usage\":{..},\"choices\":[]}"
DocTwoCalls ==
    ResponseDocOf([choices |-> << [tool_call_id |-> None,
                                   tool_calls |-> Some(<< WeatherCall, LondonCall >>)] >>],
                  FALSE)
DocLondonFirst ==
    ResponseDocOf([choices |-> << [tool_call_id |-> None,
                                   tool_calls |-> Some(<< LondonCall, WeatherCall >>)] >>],
                  FALSE)
DocNoChoices == ResponseDocOf([choices |-> << >>], FALSE)

\* serde_json's parse of a text: the document, or None for a text that is not JSON.
ParseJson(text) ==
    CASE text = TextToolCall -> Some(DocToolCall)
      [] text = TextAnswer -> Some(DocAnswer)
      [] text = TextModels -> Some(DocModels)
      [] text = TextBadSchema -> Some(DocBadSchema)
      [] text = TextStrayId -> Some(DocStrayId)
      [] text = TextTwoCalls -> Some(DocTwoCalls)
      [] text = TextLondonFirst -> Some(DocLondonFirst)
      [] text = TextNoChoices -> Some(DocNoChoices)
      [] OTHER -> None

\* Faulty variant: the choices come out in reverse order.
from_value_ChatCompletionResponse_reversed(doc) ==
    IF ~ValidChatCompletionResponse(doc) THEN Err(Deserialization("data"))
    ELSE LET r == DeserializeChatCompletionResponse(doc)
         IN Ok([r EXCEPT !.choices =
                    [i \in DOMAIN r.choices |-> r.choices[Len(r.choices) + 1 - i]]])

\* The decoding of a parsed document as a ChatCompletionResponse
\* (json_types.rs:55-75): the value, or serde's data error.
from_value_ChatCompletionResponse(doc) ==
    IF ~ValidChatCompletionResponse(doc) THEN Err(Deserialization("data"))
    ELSE Ok(DeserializeChatCompletionResponse(doc))

\* serde_json::from_str::<ChatCompletionResponse> with the map_err of lib.rs:143-147
from_str_ChatCompletionResponse(text) ==
    LET doc == ParseJson(text)
    IN IF IsNone(doc) THEN Err(Deserialization("syntax"))
       ELSE from_value_ChatCompletionResponse(Unwrap(doc))

\* serde_json::from_str::<JsonModels> with the map_err of lib.rs:72-75
from_str_JsonModels(text) ==
    LET doc == ParseJson(text)
    IN IF IsNone(doc) THEN Err(Deserialization("syntax"))
       ELSE IF ~ValidJsonModels(Unwrap(doc)) THEN Err(Deserialization("data"))
       ELSE Ok(DeserializeJsonModels(Unwrap(doc)))

-----------------------------------------------------------------------------
(* lib.rs: Client.                                                         *)

ApiKeys == {"sk-or-1", "sk-or-2"}
ApiUrl == "https://openrouter.ai/api/v1/"

\* Client::new (lib.rs:34-49), once the HTTP client was built.
ClientNew(api_key, api_url) ==
    [api_key |-> api_key, api_url |-> api_url, models |-> None]

\* Url::join
join(base, path) == << base, path >>

\* format!("Bearer {}", api_key) (lib.rs:127)
Bearer(api_key) == << "Bearer ", api_key >>

NoHeaders == [h \in {} |-> << >>]

\* Faulty variant: the client is borrowed while another call holds it.
borrow_mut_shared(p) == TRUE

\* get_models(&mut self) (lib.rs:53): the call borrows the client exclusively, so
\* it starts only when no call on the client is in flight.
borrow_mut(p) == p = "idle"

\* Faulty variant: the cache is never consulted.
not_loaded_always(c) == TRUE

\* let not_loaded = self.models.is_none() (lib.rs:54)
not_loaded(c) == IsNone(c.models)

\* The request get_models hands to send() (lib.rs:58-60).
get_models_request(c) ==
    [method |-> "GET",
     url |-> join(c.api_url, "models"),
     headers |-> NoHeaders,
     body |-> None]

\* The request chat_completion hands to send() (lib.rs:105-129); json() sets the
\* body and its content type.
chat_completion_request(c, p) ==
    [method |-> "POST",
     url |-> join(c.api_url, "chat/completions"),
     headers |-> [h \in {"Authorization", "Content-Type"} |->
                    IF h = "Authorization" THEN Bearer(c.api_key)
                    ELSE << "application/json" >>],
     body |-> Some(SerializeChatCompletionRequest(request_body(p)))]

\* Faulty variant: the request is sent a second time.
chat_completion_send_twice(c, p) ==
    << chat_completion_request(c, p), chat_completion_request(c, p) >>

\* The requests one chat_completion call issues (lib.rs:124-130): one send().
chat_completion_send(c, p) == << chat_completion_request(c, p) >>

\* Faulty variant: 400 is not told apart from the other error statuses.
chat_completion_result_no_400(status, text) ==
    IF is_success(status)
    THEN IF ~text.ok THEN Err(HTTPError)
         ELSE LET r == from_str_ChatCompletionResponse(text.val)
              IN IF r.ok THEN Ok(r.val.choices) ELSE r
    ELSE Err(HTTPErrorWithStatusCode(status))

\* What chat_completion returns once the response arrived (lib.rs:136-169);
\* text is what response.text().await gave: Ok(body) or Err(HTTPError).
chat_completion_result(status, text) ==
    IF is_success(status)
    THEN IF ~text.ok THEN Err(HTTPError)
         ELSE LET r == from_str_ChatCompletionResponse(text.val)
              IN IF r.ok THEN Ok(r.val.choices) ELSE r
    ELSE IF status = BAD_REQUEST
         THEN IF ~text.ok THEN Err(HTTPError) ELSE Err(BadRequest(text.val))
         ELSE Err(HTTPErrorWithStatusCode(status))

\* Faulty variant: a response with an error status leaves an empty catalog cached.
get_models_result_caches_error(c, status, text) ==
    IF is_success(status)
    THEN IF ~text.ok THEN [client |-> c, ret |-> Err(HTTPError)]
         ELSE LET r == from_str_JsonModels(text.val)
              IN IF ~r.ok THEN [client |-> c, ret |-> r]
                 ELSE LET loaded == [c EXCEPT !.models = Some(LLMModelsNew(r.val))]
                      IN [client |-> loaded, ret |-> Ok(Unwrap(loaded.models))]
    ELSE [client |-> [c EXCEPT !.models = Some(LLMModelsNew(<< >>))],
          ret |-> Err(HTTPErrorWithStatusCode(status))]

\* What get_models does once the response arrived (lib.rs:65-89): the cache
\* afterwards and the value returned.
get_models_result(c, status, text) ==
    IF is_success(status)
    THEN IF ~text.ok THEN [client |-> c, ret |-> Err(HTTPError)]
         ELSE LET r == from_str_JsonModels(text.val)
              IN IF ~r.ok THEN [client |-> c, ret |-> r]
                 ELSE LET loaded == [c EXCEPT !.models = Some(LLMModelsNew(r.val))]
                      IN [client |-> loaded, ret |-> Ok(Unwrap(loaded.models))]
    ELSE [client |-> c, ret |-> Err(HTTPErrorWithStatusCode(status))]

-----------------------------------------------------------------------------
(* The builder's calls. A call is applied to the builder together with its *)
(* history: the messages given so far and the record of the call.          *)

Called(op, arg, before, ret) == [op |-> op, arg |-> arg, before |-> before, ret |-> ret]

Constructed(model, messages) ==
    [param |-> New(model, messages),
     given |-> messages,
     last_call |-> Called("new", [model |-> model, messages |-> messages],
                          New(model, messages), Ok(Unit))]

Call(st, op, arg) ==
    CASE op = "add_message" ->
            [param |-> add_message(st.param, arg),
             given |-> Append(st.given, arg),
             last_call |-> Called(op, arg, st.param, Ok(Unit))]
      [] op = "add_tool" ->
            [param |-> add_tool(st.param, arg),
             given |-> st.given,
             last_call |-> Called(op, arg, st.param, Ok(Unit))]
      [] op = "set_response_format" ->
            [param |-> set_response_format(st.param, arg),
             given |-> st.given,
             last_call |-> Called(op, arg, st.param, Ok(Unit))]
      [] op = "set_tool_choice" ->
            LET r == set_tool_choice(st.param, arg)
            IN [param |-> r.param,
                given |-> st.given,
                last_call |-> Called(op, arg, st.param, r.ret)]

Builder == [param |-> param, given |-> given, last_call |-> last_call]

BuilderBecomes(st) ==
    /\ param' = st.param
    /\ given' = st.given
    /\ last_call' = st.last_call

AddMessage(message) ==
    /\ pc = "idle"
    /\ Len(param.messages) < MaxMessages
    /\ BuilderBecomes(Call(Builder, "add_message", message))
    /\ UNCHANGED <<clientVars, otherVars>>

AddTool(tool) ==
    /\ pc = "idle"
    /\ Len(param.tools) < MaxTools
    /\ BuilderBecomes(Call(Builder, "add_tool", tool))
    /\ UNCHANGED <<clientVars, otherVars>>

SetResponseFormat(response_format) ==
    /\ pc = "idle"
    /\ BuilderBecomes(Call(Builder, "set_response_format", response_format))
    /\ UNCHANGED <<clientVars, otherVars>>

SetToolChoice(tool_choice) ==
    /\ pc = "idle"
    /\ BuilderBecomes(Call(Builder, "set_tool_choice", tool_choice))
    /\ UNCHANGED <<clientVars, otherVars>>

-----------------------------------------------------------------------------
(* The builders the repository's callers hand to chat_completion, each     *)
(* made by the builder's own calls.                                        *)

RECURSIVE Run(_, _)
Run(st, script) ==
    IF script = << >> THEN st
    ELSE Run(Call(st, Head(script).op, Head(script).arg), Tail(script))

Do(op, arg) == [op |-> op, arg |-> arg]
Model1 == CHOOSE m \in ModelIds : TRUE

\* command_prompt (main.rs:132-142)
PromptBuilder == Constructed(Model1, << UserMessage >>)
\* examples/structured_output.rs:81-95
StructuredBuilder == Run(PromptBuilder, << Do("set_response_format", CountriesFormat) >>)
\* command_weather, first request (main.rs:206-214)
WeatherBuilder ==
    Run(PromptBuilder, << Do("set_tool_choice", Required), Do("add_tool", WeatherTool) >>)
\* command_weather, second request (main.rs:218-232)
WeatherReplyBuilder ==
    Run(WeatherBuilder, << Do("add_message", AssistantMessage), Do("add_message", ToolMessage) >>)
FunctionBuilder ==
    Run(Constructed(Model1, << >>),
        << Do("add_tool", WeatherTool), Do("set_tool_choice", Function("get_weather")),
           Do("set_response_format", BareFormat) >>)
ChoiceOnlyBuilder == Run(PromptBuilder, << Do("set_tool_choice", Auto) >>)
ToolsOnlyBuilder ==
    Run(Constructed(Model1, << OddMessage >>), << Do("add_tool", TimeTool) >>)
Builders ==
    {PromptBuilder, StructuredBuilder, WeatherBuilder, WeatherReplyBuilder,
     FunctionBuilder, ChoiceOnlyBuilder, ToolsOnlyBuilder}

-----------------------------------------------------------------------------
(* The client's calls, one action per stretch between two await points.    *)

NoRequest == [method |-> "none"]
NoResponse == [status |-> 0, body |-> "", read |-> "none"]
NoOutcome == [call |-> "none"]
Returned(call, ret) == [call |-> call, ret |-> ret]
Issued(n, req) == [call |-> n, request |-> req]
GotModels(n, ret) == [call |-> n, ok |-> ret.ok]
Started(op) == [op |-> op, returns |-> 0]
Return == [calls EXCEPT ![Len(calls)].returns = @ + 1]

RECURSIVE Log(_, _, _)
\* The issued requests reqs of call n, appended to the log.
Log(log, n, reqs) ==
    IF reqs = << >> THEN log
    ELSE Log(Append(log, Issued(n, Head(reqs))), n, Tail(reqs))

NoInput == [fn |-> "none"]
Applied(fn, arg) == [fn |-> fn, arg |-> arg]

CodecIdle ==
    /\ input = NoInput
    /\ output = None

ClientIdle ==
    /\ pc = "idle"
    /\ request = NoRequest
    /\ response = NoResponse
    /\ outcome = NoOutcome
    /\ requests = << >>
    /\ calls = << >>
    /\ sent = << >>
    /\ got_models = << >>

\* get_models with the models loaded (lib.rs:54, 90-93)
GetModelsCached ==
    /\ borrow_mut(pc)
    /\ Len(calls) < MaxCalls
    /\ ~not_loaded(client)
    /\ calls' = Append(calls, [op |-> "get_models", returns |-> 1])
    /\ request' = NoRequest
    /\ response' = NoResponse
    /\ outcome' = Returned("get_models", Ok(Unwrap(client.models)))
    /\ got_models' = Append(got_models, GotModels(Len(calls) + 1, Ok(Unwrap(client.models))))
    /\ UNCHANGED <<builderVars, otherVars, client, pc, requests>>

\* get_models with no models loaded, up to send().await (lib.rs:54-60)
GetModelsSend ==
    /\ borrow_mut(pc)
    /\ Len(calls) < MaxCalls
    /\ not_loaded(client)
    /\ calls' = Append(calls, Started("get_models"))
    /\ request' = get_models_request(client)
    /\ requests' = Log(requests, Len(calls) + 1, << get_models_request(client) >>)
    /\ response' = NoResponse
    /\ pc' = "get_models:send"
    /\ UNCHANGED <<builderVars, otherVars, client, outcome, got_models>>

\* send() failed (lib.rs:60-63)
GetModelsSendFailed ==
    /\ pc = "get_models:send"
    /\ outcome' = Returned("get_models", Err(HTTPError))
    /\ got_models' = Append(got_models, GotModels(Len(calls), Err(HTTPError)))
    /\ calls' = Return
    /\ pc' = "idle"
    /\ UNCHANGED <<builderVars, otherVars, client, request, response, requests>>

\* send() gave a response (lib.rs:60, 65, 81-82)
GetModelsResponse(status, body) ==
    /\ pc = "get_models:send"
    /\ response' = [status |-> status, body |-> body, read |-> "pending"]
    /\ pc' = "get_models:text"
    /\ UNCHANGED <<builderVars, otherVars, client, request, outcome, requests, calls, got_models>>

\* response.text().await and the rest of get_models (lib.rs:65-89)
GetModelsText(readable) ==
    /\ pc = "get_models:text"
    /\ LET text == IF readable THEN Ok(response.body) ELSE Err(HTTPError)
           r == get_models_result(client, response.status, text)
       IN /\ client' = r.client
          /\ outcome' = Returned("get_models", r.ret)
          /\ got_models' = Append(got_models, GotModels(Len(calls), r.ret))
    /\ response' = [response EXCEPT !.read = IF readable THEN "ok" ELSE "failed"]
    /\ calls' = Return
    /\ pc' = "idle"
    /\ UNCHANGED <<builderVars, otherVars, request, requests>>

\* chat_completion up to send().await (lib.rs:105-130)
ChatCompletionSend ==
    /\ pc = "idle"
    /\ Len(calls) < MaxCalls
    /\ calls' = Append(calls, Started("chat_completion"))
    /\ request' = chat_completion_request(client, param)
    /\ requests' = Log(requests, Len(calls) + 1, chat_completion_send(client, param))
    /\ response' = NoResponse
    /\ pc' = "chat_completion:send"
    /\ sent' = Append(sent, param)
    /\ UNCHANGED <<builderVars, codecVars, cmd, client, outcome, got_models>>

\* send() failed (lib.rs:131-134)
ChatCompletionSendFailed ==
    /\ pc = "chat_completion:send"
    /\ outcome' = Returned("chat_completion", Err(HTTPError))
    /\ calls' = Return
    /\ pc' = "idle"
    /\ UNCHANGED <<builderVars, otherVars, client, request, response, requests, got_models>>

\* send() gave a response (lib.rs:124-136)
ChatCompletionResponse(status, body) ==
    /\ pc = "chat_completion:send"
    /\ response' = [status |-> status, body |-> body, read |-> "pending"]
    /\ pc' = "chat_completion:text"
    /\ UNCHANGED <<builderVars, otherVars, client, request, outcome, requests, calls, got_models>>

\* response.text().await and the rest of chat_completion (lib.rs:136-169)
ChatCompletionText(readable) ==
    /\ pc = "chat_completion:text"
    /\ LET text == IF readable THEN Ok(response.body) ELSE Err(HTTPError)
       IN outcome' = Returned("chat_completion",
                              chat_completion_result(response.status, text))
    /\ response' = [response EXCEPT !.read = IF readable THEN "ok" ELSE "failed"]
    /\ calls' = Return
    /\ pc' = "idle"
    /\ UNCHANGED <<builderVars, otherVars, client, request, requests, got_models>>

-----------------------------------------------------------------------------
(* The builder on its own: every sequence of its calls.                    *)

Init ==
    /\ \E model \in ModelIds, messages \in InitialMessages :
            LET st == Constructed(model, messages)
            IN /\ param = st.param
               /\ given = st.given
               /\ last_call = st.last_call
    /\ client = ClientNew(CHOOSE k \in ApiKeys : TRUE, ApiUrl)
    /\ ClientIdle
    /\ CodecIdle
    /\ cmd = "none"

Next ==
    \/ \E message \in Messages : AddMessage(message)
    \/ \E tool \in Tools : AddTool(tool)
    \/ \E response_format \in ResponseFormats : SetResponseFormat(response_format)
    \/ \E tool_choice \in ToolChoices : SetToolChoice(tool_choice)

Spec == Init /\ [][Next]_vars

(* The client with a builder of one of its callers: every sequence of its  *)
(* calls and of the server's answers.                                      *)

ClientInit ==
    /\ \E st \in Builders :
            /\ param = st.param
            /\ given = st.given
            /\ last_call = st.last_call
    /\ \E api_key \in ApiKeys : client = ClientNew(api_key, ApiUrl)
    /\ ClientIdle
    /\ CodecIdle
    /\ cmd = "none"

ClientNext ==
    \/ GetModelsCached
    \/ GetModelsSend
    \/ GetModelsSendFailed
    \/ \E status \in Statuses, body \in Texts : GetModelsResponse(status, body)
    \/ \E readable \in BOOLEAN : GetModelsText(readable)
    \/ ChatCompletionSend
    \/ ChatCompletionSendFailed
    \/ \E status \in Statuses, body \in Texts : ChatCompletionResponse(status, body)
    \/ \E readable \in BOOLEAN : ChatCompletionText(readable)

ClientSpec == ClientInit /\ [][ClientNext]_vars

(* The same with the runtime's progress: a call that can take a step takes *)
(* one, since send() and text() each end with an answer or an error (the   *)
(* request times out, lib.rs:36).                                          *)
FairClientSpec == ClientSpec /\ WF_vars(ClientNext)

(* A caller that changes its builder between its chat_completion calls. A  *)
(* call borrows the builder, so the builder's calls happen while no call   *)
(* is in flight.                                                           *)

ConversationInit ==
    /\ \E st \in {PromptBuilder, StructuredBuilder, WeatherBuilder, FunctionBuilder} :
            /\ param = st.param
            /\ given = st.given
            /\ last_call = st.last_call
    /\ client = ClientNew(CHOOSE k \in ApiKeys : TRUE, ApiUrl)
    /\ ClientIdle
    /\ CodecIdle
    /\ cmd = "none"

ConversationNext ==
    \/ AddMessage(ToolMessage)
    \/ AddTool(TimeTool)
    \/ ChatCompletionSend
    \/ ChatCompletionSendFailed
    \/ ChatCompletionResponse(200, TextToolCall)
    \/ ChatCompletionText(TRUE)

ConversationSpec == ConversationInit /\ [][ConversationNext]_vars

(* command_weather (main.rs:195-241): one action per stretch between two   *)
(* await points; the two chat_completion calls are the client's own steps. *)

\* serde_json::from_str::<WeatherParameter>(arguments) (main.rs:221-222): the
\* parameter, or None where the unwrap panics.
from_str_WeatherParameter(arguments) ==
    IF arguments = "{\"latitude\":48.85,\"longitude\":2.35}"
    THEN Some([latitude |-> "48.85", longitude |-> "2.35"])
    ELSE None

\* format!("The current temperature is {}C", result) (main.rs:230), the degree
\* sign left out.
FormatTemperature(result) ==
    CASE result = 21 -> "The current temperature is 21C"
      [] result = -3 -> "The current temperature is -3C"

\* What get_weather may return (main.rs:177-193).
WeatherResults == {Ok(21), Ok(-3), Err("Failed to fetch weather data")}

\* What the server may answer to command_weather.
WeatherTexts ==
    {TextToolCall, TextTwoCalls, TextLondonFirst, TextAnswer, TextNoChoices, TextHtml}

\* Faulty variant: the reply does not name the call it answers.
weather_reply_no_id(tool_call, result) ==
    Message("tool", FormatTemperature(result), "", << >>)

\* The tool's reply (main.rs:227-232)
weather_reply(tool_call, result) ==
    Message("tool", FormatTemperature(result), tool_call.id, << >>)

\* set_tool_choice(Required)? and add_tool (main.rs:209-214)
WeatherBuild ==
    /\ cmd = "start"
    /\ LET chosen == Call(Builder, "set_tool_choice", Required)
       IN IF ~chosen.last_call.ret.ok
          THEN BuilderBecomes(chosen) /\ cmd' = "failed"
          ELSE BuilderBecomes(Call(chosen, "add_tool", WeatherTool)) /\ cmd' = "built"
    /\ UNCHANGED <<clientVars, codecVars, sent>>

\* The first chat_completion is called (main.rs:216).
WeatherFirstCall ==
    /\ cmd = "built"
    /\ calls = << >>
    /\ ChatCompletionSend

\* The first chat_completion returned: the ? of main.rs:216, then main.rs:218-224
\* up to the await of get_weather.
WeatherFirstReturned ==
    /\ cmd = "built"
    /\ pc = "idle"
    /\ Len(calls) = 1
    /\ IF ~outcome.ret.ok
       THEN cmd' = "failed" /\ UNCHANGED builderVars
       ELSE IF outcome.ret.val = << >>
       THEN cmd' = "panicked" /\ UNCHANGED builderVars
       ELSE LET message == outcome.ret.val[1].message
            IN /\ BuilderBecomes(Call(Builder, "add_message", message))
               /\ cmd' = IF message.tool_calls = << >> THEN "panicked"
                         ELSE IF IsNone(from_str_WeatherParameter(
                                            message.tool_calls[1].function_call.arguments))
                         THEN "panicked"
                         ELSE "get_weather"
    /\ UNCHANGED <<clientVars, codecVars, sent>>

\* get_weather returned: the ? of main.rs:224, then the reply is added
\* (main.rs:227-232).
WeatherGetWeatherReturned(result) ==
    /\ cmd = "get_weather"
    /\ IF ~result.ok
       THEN cmd' = "failed" /\ UNCHANGED builderVars
       ELSE LET tool_call == outcome.ret.val[1].message.tool_calls[1]
            IN /\ BuilderBecomes(Call(Builder, "add_message",
                                      weather_reply(tool_call, result.val)))
               /\ cmd' = "replied"
    /\ UNCHANGED <<clientVars, codecVars, sent>>

\* The second chat_completion is called (main.rs:234).
WeatherSecondCall ==
    /\ cmd = "replied"
    /\ Len(calls) = 1
    /\ ChatCompletionSend

\* The second chat_completion returned (main.rs:234-240).
WeatherSecondReturned ==
    /\ cmd = "replied"
    /\ pc = "idle"
    /\ Len(calls) = 2
    /\ cmd' = IF outcome.ret.ok THEN "done" ELSE "failed"
    /\ UNCHANGED <<builderVars, clientVars, codecVars, sent>>

\* main.rs:199-207: the builder holds the prompt.
WeatherInit ==
    /\ param = PromptBuilder.param
    /\ given = PromptBuilder.given
    /\ last_call = PromptBuilder.last_call
    /\ \E api_key \in ApiKeys : client = ClientNew(api_key, ApiUrl)
    /\ ClientIdle
    /\ CodecIdle
    /\ cmd = "start"

WeatherNext ==
    \/ WeatherBuild
    \/ WeatherFirstCall
    \/ WeatherFirstReturned
    \/ \E result \in WeatherResults : WeatherGetWeatherReturned(result)
    \/ WeatherSecondCall
    \/ WeatherSecondReturned
    \/ ChatCompletionSendFailed
    \/ \E status \in Statuses, body \in WeatherTexts : ChatCompletionResponse(status, body)
    \/ \E readable \in BOOLEAN : ChatCompletionText(readable)

WeatherSpec == WeatherInit /\ [][WeatherNext]_vars

(* The conversions on their own: each applied to every input of a bounded  *)
(* set.                                                                    *)

FieldNames == {"location", "latitude", "zone"}
FieldType(name) == IF name = "latitude" THEN "number" ELSE "string"
FieldDocs == {"", "City and country e.g. Bogota, Colombia"}
Fields ==
    {Field(name, FieldType(name), optional, doc) :
        name \in FieldNames, optional \in BOOLEAN, doc \in FieldDocs}

RECURSIVE FieldLists(_)
\* The lists of at most k fields of different names.
FieldLists(k) ==
    IF k = 0 THEN {<< >>}
    ELSE LET shorter == FieldLists(k - 1)
         IN shorter \cup
            {Append(q[1], q[2]) :
                q \in {r \in shorter \X Fields :
                          /\ Len(r[1]) = k - 1
                          /\ \A i \in DOMAIN r[1] : r[1][i].name # r[2].name}}

\* The parameter types: structs of at most MaxFields fields, declared with or
\* without #[schemars(deny_unknown_fields)], and those of the repository's callers.
ParameterShapes ==
    {[fields |-> fields, deny_unknown_fields |-> deny] :
        fields \in FieldLists(MaxFields), deny \in BOOLEAN}
    \cup {WeatherParameter, TimeParameter, Countries}

\* create_parameters_schema::<P>() (tools.rs:53-57)
CreateParametersSchema ==
    /\ CodecIdle
    /\ \E P \in ParameterShapes :
            /\ input' = Applied("create_parameters_schema", P)
            /\ output' = create_parameters_schema(P)
    /\ UNCHANGED <<builderVars, clientVars, sent, cmd>>

\* schema_for!(P) for a response format (structured_output_test.rs:83)
SchemaFor ==
    /\ CodecIdle
    /\ \E P \in ParameterShapes :
            /\ input' = Applied("schema_for", P)
            /\ output' = schema_for(P)
    /\ UNCHANGED <<builderVars, clientVars, sent, cmd>>

ToolNames == FunctionNames \cup {""}
ToolDescriptions == {"", "Get current temperature for a given location."}

\* Tool::<P>::new(name, description).into_json() (tool_test.rs:73-77)
IntoJson ==
    /\ CodecIdle
    /\ \E name \in ToolNames, description \in ToolDescriptions, P \in ParameterShapes :
            /\ input' = Applied("into_json", ToolNew(name, description, P))
            /\ output' = into_json(ToolNew(name, description, P))
    /\ UNCHANGED <<builderVars, clientVars, sent, cmd>>

\* The sequences over S of length at most k.
Lists(S, k) == UNION {[1..n -> S] : n \in 0..k}

ToolCallPool == {WeatherCall, LondonCall}

\* The lists of different tool calls, in every order.
ToolCallLists ==
    {l \in Lists(ToolCallPool, Cardinality(ToolCallPool)) :
        \A i, k \in DOMAIN l : i # k => l[i] # l[k]}

\* The shapes of the messages of a response: with or without the key tool_call_id,
\* and without the key tool_calls or with a list of calls.
MessageShapes ==
    {[tool_call_id |-> id, tool_calls |-> tool_calls] :
        id \in {None, Some("call_1")},
        tool_calls \in {None} \cup {Some(l) : l \in ToolCallLists}}

\* The shapes of the responses: the messages of the choices, and whether the
\* document holds keys the types do not declare.
ResponseShapes ==
    {[choices |-> choices, extra |-> extra] :
        choices \in Lists(MessageShapes, MaxChoices), extra \in BOOLEAN}

\* The decoding of a response body (lib.rs:143-147, tool_test.rs:91-92), once the
\* text was parsed.
DecodeResponse ==
    /\ CodecIdle
    /\ \E shape \in ResponseShapes :
            /\ input' = Applied("from_value", [doc |-> ResponseDocOf(shape, shape.extra),
                                               shape |-> shape])
            /\ output' = from_value_ChatCompletionResponse(ResponseDocOf(shape, shape.extra))
    /\ UNCHANGED <<builderVars, clientVars, sent, cmd>>

\* The tool choices: the unit variants and Function with any type and name, the
\* names auto and required and the empty name among them.
ToolChoiceInputs ==
    {Auto, Required}
    \cup {[variant |-> "Function", f |-> [type |-> type, function |-> [name |-> name]]] :
            type \in {"function", "auto"},
            name \in FunctionNames \cup {"auto", "required", ""}}

\* serde_json::to_string of a ToolChoice (json_types.rs:230-255)
EncodeToolChoice ==
    /\ CodecIdle
    /\ \E tool_choice \in ToolChoiceInputs :
            /\ input' = Applied("SerializeToolChoice", tool_choice)
            /\ output' = SerializeToolChoice(tool_choice)
    /\ UNCHANGED <<builderVars, clientVars, sent, cmd>>

CodecInit ==
    /\ param = PromptBuilder.param
    /\ given = PromptBuilder.given
    /\ last_call = PromptBuilder.last_call
    /\ client = ClientNew(CHOOSE k \in ApiKeys : TRUE, ApiUrl)
    /\ ClientIdle
    /\ CodecIdle
    /\ cmd = "none"

CodecNext ==
    \/ CreateParametersSchema
    \/ SchemaFor
    \/ IntoJson
    \/ DecodeResponse
    \/ EncodeToolChoice

CodecSpec == CodecInit /\ [][CodecNext]_vars

-----------------------------------------------------------------------------
(* Properties of the builder, under Spec.                                  *)

HasTool(tools, name) == \E i \in DOMAIN tools : tools[i].function.name = name
IsFunctionChoice(tc) == tc.variant = "Function"

\* C1: set_tool_choice with a Function choice naming no tool added so far fails
\* with ToolNotFound carrying that name; with a Function choice naming an added
\* tool, or with Auto or Required whatever the tools are, it succeeds and stores
\* the choice.
C1_SetToolChoiceValidates ==
    last_call.op = "set_tool_choice" =>
        LET tc == last_call.arg
        IN IF IsFunctionChoice(tc) /\ ~HasTool(last_call.before.tools, tc.f.function.name)
           THEN last_call.ret = Err(ToolNotFound(tc.f.function.name))
           ELSE last_call.ret = Ok(Unit) /\ param.tool_choice = Some(tc)

\* A Function choice was refused although the builder holds a tool of another name.
C1_Witness ==
    /\ last_call.op = "set_tool_choice"
    /\ last_call.arg = Function("get_time")
    /\ HasTool(last_call.before.tools, "get_weather")
    /\ last_call.ret = Err(ToolNotFound("get_time"))

\* C2: in every state of the builder, a stored Function choice names a tool of the
\* tool list.
C2_FunctionChoiceNamesTool ==
    (IsSome(param.tool_choice) /\ IsFunctionChoice(Unwrap(param.tool_choice)))
        => HasTool(param.tools, Unwrap(param.tool_choice).f.function.name)

\* A Function choice is stored and a failing set_tool_choice came after it.
C2_Witness ==
    /\ param.tool_choice = Some(Function("get_weather"))
    /\ Len(param.tools) = 2
    /\ last_call.op = "set_tool_choice"
    /\ ~last_call.ret.ok

\* C7: the message sequence is the initial messages followed by every message given
\* to add_message, in call order; add_message appends its argument and returns
\* normally, and no other call touches the messages.
C7_MessagesAppendOnly ==
    /\ param.messages = given
    /\ last_call.op = "add_message" =>
            /\ last_call.ret = Ok(Unit)
            /\ Len(param.messages) = Len(last_call.before.messages) + 1
            /\ param.messages[Len(param.messages)] = last_call.arg
            /\ SubSeq(param.messages, 1, Len(last_call.before.messages))
                    = last_call.before.messages
    /\ last_call.op \in {"add_tool", "set_response_format", "set_tool_choice"} =>
            param.messages = last_call.before.messages

\* Two different messages were added, one at construction and one by add_message.
C7_Witness ==
    /\ param.messages = << UserMessage, ToolMessage >>
    /\ last_call.op = "add_message"
    /\ last_call.before.messages = << UserMessage >>

\* C8: set_response_format stores exactly its argument, whatever was stored before,
\* and changes no other field; no other call changes the response format, so the
\* stored format is the argument of the most recent set_response_format.
C8_ResponseFormatLastWriteWins ==
    /\ last_call.op = "set_response_format" =>
            /\ param.response_format = Some(last_call.arg)
            /\ param.model = last_call.before.model
            /\ param.messages = last_call.before.messages
            /\ param.tools = last_call.before.tools
            /\ param.tool_choice = last_call.before.tool_choice
    /\ last_call.op \in {"add_message", "add_tool", "set_tool_choice"} =>
            param.response_format = last_call.before.response_format
    /\ last_call.op = "new" => IsNone(param.response_format)

\* A format replaced another one in a builder that holds messages, a tool and a choice.
C8_Witness ==
    /\ last_call.op = "set_response_format"
    /\ last_call.before.response_format = Some(CountriesFormat)
    /\ last_call.arg = BareFormat
    /\ param.messages # << >>
    /\ param.tools # << >>
    /\ IsSome(param.tool_choice)

-----------------------------------------------------------------------------
(* Properties of the client, under ClientSpec.                             *)

IsGet(r) == r.request.method = "GET"
IsPost(r) == r.request.method = "POST"
RequestsOf(n) == {i \in DOMAIN requests : requests[i].call = n}
Gets == {i \in DOMAIN requests : IsGet(requests[i])}
Loaded == IsSome(client.models)
\* The step starts a get_models call.
GetModelsCalled ==
    /\ Len(calls') = Len(calls) + 1
    /\ calls'[Len(calls')].op = "get_models"

\* C3 as stated: two sequential get_models calls issue at most one request.
C3_TwoCallsOneRequest ==
    \A m, n \in DOMAIN calls :
        (m < n /\ calls[m].op = "get_models" /\ calls[n].op = "get_models")
            => Cardinality(RequestsOf(m) \cup RequestsOf(n)) <= 1

\* Every get_models call has issued at most one request, a GET.
OneGetPerCall ==
    \A n \in DOMAIN calls :
        calls[n].op = "get_models" =>
            /\ Cardinality(RequestsOf(n)) <= 1
            /\ \A i \in RequestsOf(n) : IsGet(requests[i])

\* C3, amended: no get_models call issues more than one request; a get_models call
\* that succeeds leaves the catalog cached; a get_models call made while the
\* catalog is cached issues no request and returns the cached catalog; and once the
\* catalog is cached no step replaces or clears it or issues another GET. So two
\* sequential calls of which the first succeeded issue at most one request.
C3_CachedCatalogIsKept ==
    [][ /\ OneGetPerCall'
        /\ (outcome'.call = "get_models" /\ outcome'.ret.ok)
            => (Loaded' /\ outcome'.ret.val = Unwrap(client'.models))
        /\ Loaded =>
            /\ client'.models = client.models
            /\ Gets' = Gets
            /\ GetModelsCalled =>
                    /\ requests' = requests
                    /\ pc' = "idle"
                    /\ outcome' = Returned("get_models", Ok(Unwrap(client.models)))
      ]_vars

\* Two get_models calls in a row: the first fetched the catalog, the second issued
\* no request and returned it.
C3_Witness ==
    /\ Len(calls) = 2
    /\ calls[1].op = "get_models" /\ calls[2].op = "get_models"
    /\ Cardinality(RequestsOf(1)) = 1
    /\ RequestsOf(2) = {}
    /\ pc = "idle"
    /\ Loaded
    /\ outcome = Returned("get_models", Ok(Unwrap(client.models)))

\* The last chat_completion call returned after its response had arrived.
ChatCompletionAnswered ==
    /\ pc = "idle"
    /\ outcome.call = "chat_completion"
    /\ response.read \in {"ok", "failed"}

IsStatusError(ret) == ~ret.ok /\ ret.err.kind \in {"BadRequest", "HTTPErrorWithStatusCode"}

\* C4 as stated: status 400 gives the bad-request error with the body; any other
\* non-success status gives the status-code error; a success status gives no
\* status error.
C4_StatusDecidesError ==
    ChatCompletionAnswered =>
        IF response.status = 400 THEN outcome.ret = Err(BadRequest(response.body))
        ELSE IF response.status \in 200..299 THEN ~IsStatusError(outcome.ret)
        ELSE outcome.ret = Err(HTTPErrorWithStatusCode(response.status))

\* C4, amended: as stated, except that on status 400 the bad-request error with the
\* body verbatim is returned when the body could be read, and the transport error
\* when reading it failed.
C4_StatusDecidesErrorIfBodyRead ==
    ChatCompletionAnswered =>
        IF response.status = 400
        THEN IF response.read = "ok" THEN outcome.ret = Err(BadRequest(response.body))
             ELSE outcome.ret = Err(HTTPError)
        ELSE IF response.status \in 200..299 THEN ~IsStatusError(outcome.ret)
        ELSE outcome.ret = Err(HTTPErrorWithStatusCode(response.status))

\* A 400 response whose body was read and handed to the caller.
C4_Witness ==
    /\ ChatCompletionAnswered
    /\ response.status = 400
    /\ response.body = TextBadSchema
    /\ outcome.ret = Err(BadRequest("{\"error\":\"bad schema\"}"))

IsTerminalOutcome(ret) ==
    \/ ret.ok
    \/ ret.err.kind \in {"HTTPError", "BadRequest", "HTTPErrorWithStatusCode", "Deserialization"}

\* C5: every chat_completion call issues exactly one request, a POST, and returns
\* exactly once, with the choices or one of the four errors; a call still waiting
\* has issued its one request and has not returned.
C5_OnePostOneOutcome ==
    /\ \A n \in DOMAIN calls :
            calls[n].op = "chat_completion" =>
                /\ Cardinality(RequestsOf(n)) = 1
                /\ \A i \in RequestsOf(n) : IsPost(requests[i])
                /\ calls[n].returns = IF n = Len(calls) /\ pc # "idle" THEN 0 ELSE 1
    /\ (pc = "idle" /\ outcome.call = "chat_completion") => IsTerminalOutcome(outcome.ret)

\* Two chat_completion calls, the second of which failed in transport: two POSTs.
C5_Witness ==
    /\ Len(calls) = 2
    /\ calls[1].op = "chat_completion" /\ calls[2].op = "chat_completion"
    /\ pc = "idle"
    /\ response.read = "none"
    /\ outcome = Returned("chat_completion", Err(HTTPError))
    /\ Len(requests) = 2

\* C6: every request issued carries Authorization: Bearer <api_key> with the
\* client's key.
C6_EveryRequestAuthorized ==
    \A i \in DOMAIN requests :
        /\ "Authorization" \in DOMAIN requests[i].request.headers
        /\ requests[i].request.headers["Authorization"] = << "Bearer ", client.api_key >>

PostBody == Unwrap(request.body)

\* C9: the envelope of a chat_completion request holds tools iff the tool list is
\* not empty, tool_choice iff a choice is set, response_format iff a format is
\* set; a key that is present is neither null nor an empty array.
C9_OptionalKeysOmitted ==
    request.method = "POST" =>
        /\ {"model", "messages"} \subseteq Keys(PostBody)
        /\ "tools" \in Keys(PostBody) <=> param.tools # << >>
        /\ "tool_choice" \in Keys(PostBody) <=> IsSome(param.tool_choice)
        /\ "response_format" \in Keys(PostBody) <=> IsSome(param.response_format)
        /\ "tools" \in Keys(PostBody) =>
                (PostBody.o["tools"].t = "array" /\ Len(PostBody.o["tools"].a) > 0)
        /\ "tool_choice" \in Keys(PostBody) => PostBody.o["tool_choice"].t # "null"
        /\ "response_format" \in Keys(PostBody) => PostBody.o["response_format"].t # "null"

\* A request of a builder with a tool choice, no tools and no response format.
C9_Witness ==
    /\ request.method = "POST"
    /\ param.tools = << >>
    /\ IsSome(param.tool_choice)
    /\ IsNone(param.response_format)
    /\ Keys(PostBody) = {"model", "messages", "tool_choice"}

\* C10: each message of the envelope holds tool_call_id iff the message's
\* tool_call_id is not empty, tool_calls iff its tool_calls are not empty, and
\* always role and content.
C10_MessageKeys ==
    request.method = "POST" =>
        /\ Len(PostBody.o["messages"].a) = Len(param.messages)
        /\ \A i \in DOMAIN param.messages :
            LET doc == PostBody.o["messages"].a[i]
                m == param.messages[i]
            IN /\ {"role", "content"} \subseteq Keys(doc)
               /\ Keys(doc) \subseteq {"role", "content", "tool_call_id", "tool_calls"}
               /\ "tool_call_id" \in Keys(doc) <=> m.tool_call_id # ""
               /\ "tool_calls" \in Keys(doc) <=> m.tool_calls # << >>

\* A request whose messages are a plain one, one with tool calls and an empty
\* content, and one with a tool_call_id.
C10_Witness ==
    /\ request.method = "POST"
    /\ param.messages = << UserMessage, AssistantMessage, ToolMessage >>
    /\ Keys(PostBody.o["messages"].a[1]) = {"role", "content"}
    /\ Keys(PostBody.o["messages"].a[2]) = {"role", "content", "tool_calls"}
    /\ Keys(PostBody.o["messages"].a[3]) = {"role", "content", "tool_call_id"}

-----------------------------------------------------------------------------
(* Properties of the messages held and decoded, under ClientSpec.          *)

\* A message keeps to the roles' shape: a tool_call_id only on a tool message,
\* tool calls only on an assistant message.
WellShaped(m) ==
    /\ m.tool_call_id # "" => m.role = "tool"
    /\ m.tool_calls # << >> => m.role = "assistant"

\* The same of a message document of a response.
WellShapedDoc(j) ==
    /\ ("tool_call_id" \in Keys(j) /\ j.o["tool_call_id"].s # "") => j.o["role"].s = "tool"
    /\ ("tool_calls" \in Keys(j) /\ j.o["tool_calls"].a # << >>) => j.o["role"].s = "assistant"

\* The last chat_completion call returned the choices decoded from the body.
ChoicesDecoded ==
    /\ pc = "idle"
    /\ outcome.call = "chat_completion"
    /\ outcome.ret.ok

\* The message documents of the body the choices were decoded from.
MessageDoc(i) == Unwrap(ParseJson(response.body)).o["choices"].a[i].o["message"]

\* C11 as stated: every message held by the builder or decoded from a response has
\* an empty tool_call_id unless its role is tool, and no tool calls unless it is an
\* assistant message.
C11_MessagesWellShaped ==
    /\ \A i \in DOMAIN param.messages : WellShaped(param.messages[i])
    /\ ChoicesDecoded =>
            \A i \in DOMAIN outcome.ret.val : WellShaped(outcome.ret.val[i].message)

\* C11, amended: nothing checks the shape. A held message has the role, the
\* tool_call_id and the tool calls of the message the caller gave, and a decoded
\* message those of the response's document (empty where the key is absent); so a
\* held or decoded message is well shaped exactly when the given message or the
\* document is.
C11_ShapeIsTheCallersAndTheServers ==
    /\ Len(param.messages) = Len(given)
    /\ \A i \in DOMAIN param.messages :
            /\ param.messages[i].role = given[i].role
            /\ param.messages[i].tool_call_id = given[i].tool_call_id
            /\ param.messages[i].tool_calls = given[i].tool_calls
            /\ WellShaped(param.messages[i]) <=> WellShaped(given[i])
    /\ ChoicesDecoded =>
            \A i \in DOMAIN outcome.ret.val :
                LET m == outcome.ret.val[i].message
                    j == MessageDoc(i)
                IN /\ m.role = j.o["role"].s
                   /\ m.tool_call_id =
                        IF "tool_call_id" \in Keys(j) THEN j.o["tool_call_id"].s ELSE ""
                   /\ Len(m.tool_calls) =
                        IF "tool_calls" \in Keys(j) THEN Len(j.o["tool_calls"].a) ELSE 0
                   /\ WellShaped(m) <=> WellShapedDoc(j)

\* The builder holds a user message with a tool_call_id and tool calls, and the
\* choices decoded hold an assistant message with a tool_call_id.
C11_Witness ==
    /\ param.messages = << OddMessage >>
    /\ ~WellShaped(param.messages[1])
    /\ ChoicesDecoded
    /\ response.body = TextStrayId
    /\ outcome.ret.val[1].message.tool_call_id = "call_1"
    /\ ~WellShaped(outcome.ret.val[1].message)

-----------------------------------------------------------------------------
(* Properties of overlapping calls, under FairClientSpec.                  *)

\* Two get_models calls are in flight together, each has issued its GET, and no
\* catalog is cached.
TwoGetsInFlight ==
    \E m, n \in DOMAIN calls :
        /\ m < n
        /\ calls[m].op = "get_models" /\ calls[n].op = "get_models"
        /\ calls[m].returns = 0 /\ calls[n].returns = 0
        /\ RequestsOf(m) # {} /\ RequestsOf(n) # {}
        /\ ~Loaded

-----------------------------------------------------------------------------
(* Further properties of the builder, under Spec.                          *)

\* C13: add_tool never rejects a tool: it returns normally and appends one
\* descriptor, that of its argument, to the end of the tool list, also when a tool
\* of that name is already in the list; the list grows by exactly one and the
\* earlier entries stay as they were, in order.
C13_AddToolAlwaysAppends ==
    last_call.op = "add_tool" =>
        /\ last_call.ret = Ok(Unit)
        /\ Len(param.tools) = Len(last_call.before.tools) + 1
        /\ param.tools[Len(param.tools)].function.name = last_call.arg.name
        /\ param.tools[Len(param.tools)].function.description = last_call.arg.description
        /\ SubSeq(param.tools, 1, Len(last_call.before.tools)) = last_call.before.tools

\* The tool get_weather was added to a list that held get_weather already.
C13_Witness ==
    /\ last_call.op = "add_tool"
    /\ last_call.arg = WeatherTool
    /\ HasTool(last_call.before.tools, "get_weather")
    /\ Len(param.tools) = 2
    /\ param.tools[1] = param.tools[2]

-----------------------------------------------------------------------------
(* Properties of the conversions, under CodecSpec.                         *)

\* A schema was generated for the parameter type input.arg.
SchemaGenerated == input.fn \in {"create_parameters_schema", "schema_for"}

\* The schema is an object schema with exactly the non-optional fields required
\* and one property per field, in order, that has the field's type.
ObjectSchemaOf(schema, P) ==
    /\ schema.type = "object"
    /\ schema.required = {P.fields[i].name : i \in {j \in DOMAIN P.fields : ~P.fields[j].optional}}
    /\ Len(schema.properties) = Len(P.fields)
    /\ \A i \in DOMAIN P.fields :
            /\ schema.properties[i].name = P.fields[i].name
            /\ P.fields[i].type \in schema.properties[i].type

C15_IntoJsonKeepsNameAndDescription ==
    input.fn = "into_json" =>
        /\ output.tool_type = "function"
        /\ output.function.strict = TRUE
        /\ output.function.name = input.arg.name
        /\ output.function.description = input.arg.description

\* The descriptor of the tool get_weather with its description.
C15_Witness ==
    /\ input.fn = "into_json"
    /\ input.arg.name = "get_weather"
    /\ input.arg.description = "Get current temperature for a given location."
    /\ output.function.name = "get_weather"
    /\ output.function.description = "Get current temperature for a given location."
    /\ output.function.strict

\* The document of message i of the response decoded.
DecodedFrom(i) == input.arg.doc.o["choices"].a[i].o["message"]

\* The tool call has the index, id, type, name and arguments of its document.
SameToolCall(call, j) ==
    /\ call.index = j.o["index"].n
    /\ call.id = j.o["id"].s
    /\ call.type = j.o["type"].s
    /\ call.function_call.name = j.o["function"].o["name"].s
    /\ call.function_call.arguments = j.o["function"].o["arguments"].s

\* C16: decoding a response keeps the number and order of its choices and of the
\* tool calls of each message, and each tool call's index, id, type, function name
\* and arguments string; a message without the key tool_call_id or tool_calls
\* decodes to an empty string and an empty list; and keys the types do not declare
\* change nothing.
C16_DecodingKeepsChoicesAndToolCalls ==
    input.fn = "from_value" =>
        /\ output.ok
        /\ Len(output.val.choices) = Len(input.arg.doc.o["choices"].a)
        /\ \A i \in DOMAIN output.val.choices :
            LET m == output.val.choices[i].message
                j == DecodedFrom(i)
            IN /\ output.val.choices[i].index = input.arg.doc.o["choices"].a[i].o["index"].n
               /\ m.tool_call_id =
                    IF "tool_call_id" \in Keys(j) THEN j.o["tool_call_id"].s ELSE ""
               /\ "tool_calls" \notin Keys(j) => m.tool_calls = << >>
               /\ "tool_calls" \in Keys(j) =>
                    /\ Len(m.tool_calls) = Len(j.o["tool_calls"].a)
                    /\ \A k \in DOMAIN m.tool_calls :
                            SameToolCall(m.tool_calls[k], j.o["tool_calls"].a[k])
        /\ output = from_value_ChatCompletionResponse(ResponseDocOf(input.arg.shape, FALSE))

\* A response with undeclared keys and two choices was decoded: the first message
\* holds two tool calls, the one of index 1 before the one of index 0, the second
\* message has neither key.
C16_Witness ==
    /\ input.fn = "from_value"
    /\ input.arg.shape.extra
    /\ "service_tier" \in Keys(input.arg.doc)
    /\ output.ok
    /\ Len(output.val.choices) = 2
    /\ output.val.choices[1].message.tool_calls = << LondonCall, WeatherCall >>
    /\ Keys(DecodedFrom(2)) = {"role", "content", "refusal"}
    /\ output.val.choices[2].message.tool_call_id = ""
    /\ output.val.choices[2].message.tool_calls = << >>

\* C17: a ToolChoice is written as the string "auto" for Auto, the string
\* "required" for Required, and for Function as the object of its type and its
\* function's name, with no key for the variant; two different choices are never
\* written alike, whatever the function's name.
C17_ToolChoiceEncoding ==
    input.fn = "SerializeToolChoice" =>
        /\ input.arg = Auto => output = JStr("auto")
        /\ input.arg = Required => output = JStr("required")
        /\ input.arg.variant = "Function" =>
                /\ output.t = "object"
                /\ Keys(output) = {"type", "function"}
                /\ output.o["type"] = JStr(input.arg.f.type)
                /\ output.o["function"] = JObj([name |-> JStr(input.arg.f.function.name)])
        /\ \A other \in ToolChoiceInputs :
                other # input.arg => SerializeToolChoice(other) # output

\* The Function choice of the function named auto was written: an object, not the
\* string of Auto.
C17_Witness ==
    /\ input.fn = "SerializeToolChoice"
    /\ input.arg = Function("auto")
    /\ output.o["function"].o["name"] = JStr("auto")
    /\ output # SerializeToolChoice(Auto)

-----------------------------------------------------------------------------
(* Properties of the envelopes sent, under ConversationSpec.               *)

\* The bodies of the POST requests issued, in order.
Posts == SelectSeq(requests, IsPost)
Envelope(k) == Unwrap(Posts[k].request.body)

\* The envelope holds the builder's model, messages in sequence order, tools in
\* list order, tool choice and response format.
EnvelopeOf(e, p) ==
    /\ e.o["model"] = JStr(p.model)
    /\ Len(e.o["messages"].a) = Len(p.messages)
    /\ \A i \in DOMAIN p.messages :
            /\ e.o["messages"].a[i].o["role"] = JStr(p.messages[i].role)
            /\ e.o["messages"].a[i].o["content"] = JStr(p.messages[i].content)
            /\ ("tool_call_id" \in Keys(e.o["messages"].a[i])) =>
                    e.o["messages"].a[i].o["tool_call_id"] = JStr(p.messages[i].tool_call_id)
    /\ "tools" \in Keys(e) <=> p.tools # << >>
    /\ "tools" \in Keys(e) =>
            /\ Len(e.o["tools"].a) = Len(p.tools)
            /\ \A i \in DOMAIN p.tools :
                    e.o["tools"].a[i].o["function"].o["name"] = JStr(p.tools[i].function.name)
    /\ "tool_choice" \in Keys(e) <=> IsSome(p.tool_choice)
    /\ "tool_choice" \in Keys(e) =>
            e.o["tool_choice"] = SerializeToolChoice(Unwrap(p.tool_choice))
    /\ "response_format" \in Keys(e) <=> IsSome(p.response_format)
    /\ "response_format" \in Keys(e) =>
            e.o["response_format"].o["type"] = JStr(Unwrap(p.response_format).schema_type)

\* The second builder is the first one after one add_message.
OneMessageAdded(a, b) ==
    /\ Len(b.messages) = Len(a.messages) + 1
    /\ b = [a EXCEPT !.messages = Append(a.messages, b.messages[Len(b.messages)])]

\* The envelope e is the one of the key's value.
SameKey(e, f, key) ==
    /\ key \in Keys(e) <=> key \in Keys(f)
    /\ key \in Keys(e) => e.o[key] = f.o[key]

\* A step of a chat_completion call.
ChatCompletionStep == pc # "idle" \/ pc' # "idle"

\* C18: no step of a chat_completion call changes the builder, and every envelope
\* sent holds the state the builder had at the call: model, messages in order,
\* tools in order, tool choice and response format. Hence of two consecutive
\* envelopes of a builder that had one message added in between, the second holds
\* the messages of the first followed by the added one, and the same tools and
\* tool choice.
C18_EnvelopeIsTheBuilder ==
    [][ /\ ChatCompletionStep => param' = param
        /\ Len(Posts') = Len(sent')
        /\ \A k \in DOMAIN sent' : EnvelopeOf(Envelope(k)', sent'[k])
        /\ pc' # "idle" => sent'[Len(sent')] = param'
        /\ \A k \in DOMAIN sent' :
                (k > 1 /\ OneMessageAdded(sent'[k - 1], sent'[k])) =>
                    LET first == Envelope(k - 1)'
                        second == Envelope(k)'
                        n == Len(first.o["messages"].a)
                    IN /\ Len(second.o["messages"].a) = n + 1
                       /\ SubSeq(second.o["messages"].a, 1, n) = first.o["messages"].a
                       /\ second.o["messages"].a[n + 1].o["role"]
                            = JStr(sent'[k].messages[n + 1].role)
                       /\ SameKey(first, second, "tools")
                       /\ SameKey(first, second, "tool_choice")
      ]_vars

\* The builder of the weather request was sent, had the tool's reply added, and was
\* sent again: the second envelope holds the first one's message and the reply.
C18_Witness ==
    /\ Len(sent) = 2
    /\ sent[1] = WeatherBuilder.param
    /\ sent[2] = add_message(WeatherBuilder.param, ToolMessage)
    /\ Len(Envelope(1).o["messages"].a) = 1
    /\ Len(Envelope(2).o["messages"].a) = 2
    /\ Envelope(2).o["messages"].a[2].o["role"] = JStr("tool")
    /\ "tools" \in Keys(Envelope(2))

-----------------------------------------------------------------------------
(* Properties of command_weather, under WeatherSpec.                       *)

\* The first chat_completion call has returned an error and no other call was made.
FirstCallFailed ==
    /\ Len(calls) = 1
    /\ pc = "idle"
    /\ ~outcome.ret.ok

\* The order of the weather cycle, as the builder and the requests show it.
WeatherCycleInOrder ==
    /\ Len(sent) <= 2
    /\ Len(Posts) = Len(sent)
    /\ \A k \in DOMAIN sent :
            /\ HasTool(sent[k].tools, "get_weather")
            /\ sent[k].tool_choice = Some(Required)
    /\ Len(sent) >= 1 => sent[1].messages = << UserMessage >>
    /\ Len(param.messages) \in 1..3
    /\ param.messages[1] = UserMessage
    /\ Len(param.messages) >= 2 =>
            /\ Len(calls) >= 1
            /\ Len(calls) = 1 =>
                    (outcome.ret.ok /\ param.messages[2] = outcome.ret.val[1].message)
    /\ Len(param.messages) = 3 =>
            /\ param.messages[3].role = "tool"
            /\ param.messages[2].tool_calls # << >>
            /\ param.messages[3].tool_call_id = param.messages[2].tool_calls[1].id
    /\ Len(sent) = 2 =>
            /\ sent[2].messages = param.messages
            /\ Len(param.messages) = 3
            /\ \A i \in 1..3 :
                    Envelope(2).o["messages"].a[i].o["role"]
                        = JStr(<< "user", "assistant", "tool" >>[i])
    /\ FirstCallFailed => (param.messages = << UserMessage >> /\ Len(requests) = 1)

\* C19: in command_weather the tool get_weather is in the tool list and the tool
\* choice is Required when the first chat_completion is called; the message of the
\* first response is appended before the tool's reply; the reply carries the id of
\* the first tool call of that message; the second chat_completion is called only
\* after both appends, with the messages user, assistant, tool; and once the first
\* call has failed no message is appended and no second request is issued.
C19_WeatherCycleOrder ==
    [][ /\ WeatherCycleInOrder'
        /\ FirstCallFailed => (param' = param /\ requests' = requests)
      ]_vars

\* The cycle ran to its end: the assistant asked for two calls, the reply names the
\* first of them, and the second request was answered.
C19_Witness ==
    /\ cmd = "done"
    /\ Len(sent) = 2
    /\ param.messages[2].tool_calls = << WeatherCall, LondonCall >>
    /\ param.messages[3] = Message("tool", "The current temperature is -3C", "call_1", << >>)
    /\ Len(requests) = 2

-----------------------------------------------------------------------------
(* The frame of set_tool_choice, under Spec.                               *)

\* C20: a set_tool_choice that fails leaves the builder exactly as it was: the
\* tool choice stored before, unset or set by an earlier call, is kept, and model,
\* messages, tools and response format are unchanged; one that succeeds changes the
\* tool choice and nothing else.
C20_SetToolChoiceFrame ==
    last_call.op = "set_tool_choice" =>
        /\ param.model = last_call.before.model
        /\ param.messages = last_call.before.messages
        /\ param.tools = last_call.before.tools
        /\ param.response_format = last_call.before.response_format
        /\ ~last_call.ret.ok =>
                /\ param.tool_choice = last_call.before.tool_choice
                /\ param = last_call.before
        /\ last_call.ret.ok =>
                param = [last_call.before EXCEPT !.tool_choice = Some(last_call.arg)]

\* A Function choice naming no tool was refused by a builder that holds a message,
\* a tool, a response format and the choice Required, which it still holds.
C20_Witness ==
    /\ last_call.op = "set_tool_choice"
    /\ last_call.arg = Function("get_news")
    /\ ~last_call.ret.ok
    /\ last_call.before.tool_choice = Some(Required)
    /\ param.tool_choice = Some(Required)
    /\ param.messages # << >>
    /\ param.tools # << >>
    /\ IsSome(param.response_format)

-----------------------------------------------------------------------------
(* The cache of the model catalog and the failing calls, under ClientSpec. *)

GetModelsCalls == {n \in DOMAIN calls : calls[n].op = "get_models"}
Succeeded == {got_models[i].call : i \in {j \in DOMAIN got_models : got_models[j].ok}}
Failed == {got_models[i].call : i \in {j \in DOMAIN got_models : ~got_models[j].ok}}
FirstSucceeded == CHOOSE n \in Succeeded : \A m \in Succeeded : n <= m
\* The get_models calls made up to and including the first that succeeded: all of
\* them while none has succeeded.
UpToFirstSucceeded ==
    IF Succeeded = {} THEN GetModelsCalls
    ELSE {n \in GetModelsCalls : n <= FirstSucceeded}
\* The last call made was a get_models call and has returned what outcome holds.
GetModelsReturned ==
    /\ pc = "idle"
    /\ calls # << >>
    /\ calls[Len(calls)].op = "get_models"

\* C21: the cache of a client is filled only by a get_models call whose GET was
\* answered with a success status and a body that decoded. A get_models call that
\* fails (send failed, status not a success, 400 included, which gives the error
\* holding the status only, body unreadable or not decodable) leaves the cache
\* empty, and the get_models call after it issues a GET of its own. So the GETs
\* the client has issued are one for each get_models call made up to and including
\* the first that succeeded, and none for a later call.
C21_CacheFilledOnlyBySuccess ==
    /\ Loaded <=> Succeeded # {}
    /\ \A n \in Failed : \A m \in Succeeded : n < m
    /\ \A n \in GetModelsCalls :
            /\ n \in UpToFirstSucceeded =>
                    /\ Cardinality(RequestsOf(n)) = 1
                    /\ \A i \in RequestsOf(n) : IsGet(requests[i])
            /\ n \notin UpToFirstSucceeded => RequestsOf(n) = {}
    /\ Cardinality(Gets) = Cardinality(UpToFirstSucceeded)
    /\ (GetModelsReturned /\ Len(calls) \in Failed) =>
            /\ ~Loaded
            /\ ~outcome.ret.ok
            /\ outcome.ret.err =
                    IF response = NoResponse THEN HTTPError
                    ELSE IF ~is_success(response.status)
                         THEN HTTPErrorWithStatusCode(response.status)
                    ELSE IF response.read = "failed" THEN HTTPError
                    ELSE from_str_JsonModels(response.body).err
    /\ (GetModelsReturned /\ Succeeded # {} /\ Len(calls) = FirstSucceeded) =>
            /\ is_success(response.status)
            /\ response.read = "ok"
            /\ from_str_JsonModels(response.body).ok
            /\ client.models = Some(LLMModelsNew(from_str_JsonModels(response.body).val))

\* Three get_models calls: the first failed, the second fetched the catalog, the
\* third was served from the cache; two GETs were issued, by the first two calls.
C21_Witness ==
    /\ Len(calls) = 3
    /\ GetModelsCalls = {1, 2, 3}
    /\ Failed = {1}
    /\ Succeeded = {2, 3}
    /\ requests[1].request.method = "GET"
    /\ Cardinality(Gets) = 2
    /\ RequestsOf(3) = {}
    /\ Loaded
    /\ pc = "idle"

====
